---- MODULE Spec2Model ----
(***************************************************************************)
(* The gallery carousel of the title-label variant (src/unnamed/part_000): *)
(* the click handler of the gallery root, the two gsap.to calls it makes,  *)
(* and the tweening engine's frame loop that renders the tweens and fires  *)
(* the completion callback of the title fade-out.                          *)
(*                                                                         *)
(* Rotation is counted in sub-steps: Step sub-steps make one 2*pi/count.   *)
(* Opacity is counted in levels 0..Full.  A tween lasts Dur frames; an     *)
(* intermediate value is rounded toward the tween's start value, so that   *)
(* an intermediate opacity is 0 exactly when the real one is.              *)
(***************************************************************************)
EXTENDS Integers, Sequences, FiniteSets, TLC

\* ---------------------------------------------------------------- bounds
\* Click events in one behaviour.
MaxClicks == 2
\* Frames the ticker renders during one 0.5 s tween.
Dur == 3
\* Rotation sub-steps in one step of 2*pi/count.
Step == 2
\* Opacity levels: Full is opacity 1.
Full == 3

\* ------------------------------------------------------------ the gallery
\* The titles of the image list, in the listed order.
AllImages ==
  << "Max Verstappen", "You Luke Huge", "Mercy", "Def Hop On Later", "Groundbreaking" >>

VARIABLES
  images,          \* the gallery items (their titles), fixed at startup
  index,           \* App's state: the displayed index (useState(0))
  rotationY,       \* rootNode.current.rotation.y, in sub-steps
  opacity,         \* the h1's opacity, in levels
  globalTimeline,  \* the tweening engine's live tweens, in render order
  clicks,          \* click events handled so far
  event,           \* what the latest click event's handler read of the nearest hit
  last             \* the latest navigation request (history)

vars == << images, index, rotationY, opacity, globalTimeline, clicks, event, last >>

count == Len(images)

\* The heading: images[index].title (the list is 0-based in the source).
Title == images[index + 1]

\* ---------------------------------------------------- Artwork: hit targets
\* userData.index of the mesh named "LeftArrow" of the item at `i`.
LeftArrowSwapped(i) == IF i = 0 THEN count - 1 ELSE i - 1
LeftArrowIndex(i) == IF i = count - 1 THEN 0 ELSE i + 1

\* userData.index of the mesh named "RightArrow" of the item at `i`.
RightArrowNoWrap(i) == i - 1
RightArrowIndex(i) == IF i = 0 THEN count - 1 ELSE i - 1

Arrows == { "LeftArrow", "RightArrow" }

\* The meshes of the item at `i`: the two arrows, tagged, and the unnamed
\* border and artwork meshes, which carry no userData.
Meshes(i) ==
  { [name |-> "LeftArrow", item |-> i, userData |-> << LeftArrowIndex(i) >>],
    [name |-> "RightArrow", item |-> i, userData |-> << RightArrowIndex(i) >>],
    [name |-> "", item |-> i, userData |-> << >>] }

\* What a click event can carry: no intersection, or a nearest mesh.
Intersections ==
  { << >> } \cup { << m >> : m \in UNION { Meshes(i) : i \in 0 .. count - 1 } }

\* What the handler reads of the nearest hit: obj.name and obj.userData.
Read(obj) == [name |-> obj.name, userData |-> obj.userData]

NoHit == [name |-> "none", userData |-> << >>]

\* ------------------------------------------------------------- the tweens
\* gsap.to(rootNode.current.rotation, {y: rotation.y + deltaY}).
RotationTweenAbsolute(direction, y) ==
  [prop |-> "rotation", end |-> direction * Step, start |-> 0, initted |-> FALSE,
   k |-> 0, onComplete |-> << >>]
RotationTween(direction, y) ==
  [prop |-> "rotation", end |-> y + direction * Step, start |-> 0, initted |-> FALSE,
   k |-> 0, onComplete |-> << >>]

\* gsap.to("h1", {opacity: 0, onComplete: ...}) of animateChangeArtwork.
FadeOutTween(newIndex) ==
  [prop |-> "opacity", end |-> 0, start |-> 0, initted |-> FALSE,
   k |-> 0, onComplete |-> << newIndex >>]

\* gsap.to("h1", {opacity: 1}) issued by the completion callback.
FadeInTweenStuck ==
  [prop |-> "opacity", end |-> 0, start |-> 0, initted |-> FALSE,
   k |-> 0, onComplete |-> << >>]
FadeInTween ==
  [prop |-> "opacity", end |-> Full, start |-> 0, initted |-> FALSE,
   k |-> 0, onComplete |-> << >>]

\* gsap.to adds the tween to the timeline; with no overwrite option the
\* tweens already there stay.
AddOverwriting(timeline, tween) ==
  Append(SelectSeq(timeline, LAMBDA t : t.prop # tween.prop), tween)
AddTween(timeline, tween) == Append(timeline, tween)

\* The direction checkIntersection passes for the arrow named `name`.
DirectionSwapped(name) == IF name = "LeftArrow" THEN 1 ELSE -1
Direction(name) == IF name = "LeftArrow" THEN -1 ELSE 1

\* ------------------------------------------------------- the frame loop
Trunc(x, d) == IF x >= 0 THEN x \div d ELSE -((-x) \div d)

\* The value a tween writes at its frame k.
Interp(start, end, k) == IF k = Dur THEN end ELSE start + Trunc((end - start) * k, Dur)

\* One frame: the tweens render in order, each writing its property; a
\* tween that reaches its end leaves the timeline and its onComplete runs
\* at once (setIndex, then the fade-in is added at the end of the timeline).
RECURSIVE RenderAll(_, _, _, _)
RenderAll(todo, kept, created, st) ==
  IF todo = << >>
  THEN [timeline |-> kept \o created, st |-> st]
  ELSE LET t == Head(todo)
           cur == IF t.prop = "rotation" THEN st.rotationY ELSE st.opacity
           s == IF t.initted THEN t.start ELSE cur
           k == t.k + 1
           v == Interp(s, t.end, k)
           st1 == IF t.prop = "rotation"
                  THEN [st EXCEPT !.rotationY = v]
                  ELSE [st EXCEPT !.opacity = v]
       IN IF k < Dur
          THEN RenderAll(Tail(todo),
                         Append(kept, [t EXCEPT !.start = s, !.initted = TRUE, !.k = k]),
                         created, st1)
          ELSE IF t.onComplete = << >>
               THEN RenderAll(Tail(todo), kept, created, st1)
               ELSE RenderAll(Tail(todo), kept, AddTween(created, FadeInTween),
                              [st1 EXCEPT !.index = t.onComplete[1]])

AtRest == globalTimeline = << >>

\* --------------------------------------------------------------- actions
Init ==
  /\ images \in { SubSeq(AllImages, 1, n) : n \in 1 .. Len(AllImages) }
  /\ index = 0
  /\ rotationY = 0
  /\ opacity = Full
  /\ globalTimeline = << >>
  /\ clicks = 0
  /\ event = NoHit
  /\ last = [name |-> "", item |-> 0, index |-> 0, from |-> 0, y |-> 0, atRest |-> TRUE]

\* The onClick handler of the gallery root, with rotateGallery and
\* animateChangeArtwork, which it runs to the end.
checkIntersection(intersections) ==
  /\ clicks < MaxClicks
  /\ clicks' = clicks + 1
  /\ event' = IF Len(intersections) > 0 THEN Read(intersections[1]) ELSE NoHit
  /\ IF Len(intersections) > 0 /\ intersections[1].name \in Arrows
     THEN LET obj == intersections[1]
              newIndex == obj.userData[1]
              direction == Direction(obj.name)
          IN /\ globalTimeline' =
                  AddTween(AddTween(globalTimeline, RotationTween(direction, rotationY)),
                           FadeOutTween(newIndex))
             /\ last' = [name |-> obj.name, item |-> obj.item, index |-> newIndex,
                         from |-> index, y |-> rotationY, atRest |-> AtRest]
     ELSE UNCHANGED << globalTimeline, last >>
  /\ UNCHANGED << images, index, rotationY, opacity >>

Click == \E intersections \in Intersections : checkIntersection(intersections)

\* The ticker's frame while tweens are live.
Tick ==
  /\ globalTimeline # << >>
  /\ LET r == RenderAll(globalTimeline, << >>, << >>,
                        [rotationY |-> rotationY, opacity |-> opacity, index |-> index])
     IN /\ globalTimeline' = r.timeline
        /\ rotationY' = r.st.rotationY
        /\ opacity' = r.st.opacity
        /\ index' = r.st.index
  /\ UNCHANGED << images, clicks, event, last >>

Next == Click \/ Tick

Spec == Init /\ [][Next]_vars

\* Each click is made at rest, on an arrow of the item that faces the viewer.
Facing(i) == (rotationY + i * Step) % (count * Step) = 0

ClickFacingAtRest ==
  /\ AtRest
  /\ \E intersections \in Intersections :
       /\ Len(intersections) > 0
       /\ intersections[1].name \in Arrows
       /\ Facing(intersections[1].item)
       /\ checkIntersection(intersections)

NextAtRest == ClickFacingAtRest \/ Tick

SpecAtRest == Init /\ [][NextAtRest]_vars

\* The ticker renders a frame for as long as a tween is live.
LiveSpec == Spec /\ WF_vars(Tick)

\* ------------------------------------------------------------- the claims
\* The latest navigation was requested at rest on the displayed item and
\* has completed.
NavigatedFromDisplayed ==
  /\ AtRest
  /\ last.name \in Arrows
  /\ last.atRest
  /\ last.item = last.from

\* C1 (as amended): at rest, a click on the RightArrow of the displayed item
\* i leaves index (i-1+N) mod N once the navigation completes, and a click
\* on its LeftArrow leaves (i+1) mod N: newIndex = (i - direction + N) mod N.
C1_NavigateIndex ==
  NavigatedFromDisplayed =>
    index = IF last.name = "RightArrow"
            THEN (last.from - 1 + count) % count
            ELSE (last.from + 1) % count

\* C1 (as stated): RightArrow leaves (i+1) mod N and LeftArrow (i-1+N) mod N.
C1_Original ==
  NavigatedFromDisplayed =>
    index = IF last.name = "RightArrow"
            THEN (last.from + 1) % count
            ELSE (last.from - 1 + count) % count

C1_Witness ==
  /\ NavigatedFromDisplayed
  /\ last.name = "RightArrow"
  /\ count = 5
  /\ last.from = 0
  /\ index = 4

\* The rotation tween a navigation has just added: the last one of the timeline.
RECURSIVE LastRotationEnd(_)
LastRotationEnd(timeline) ==
  IF timeline[Len(timeline)].prop = "rotation"
  THEN timeline[Len(timeline)].end
  ELSE LastRotationEnd(SubSeq(timeline, 1, Len(timeline) - 1))

HasRotation(timeline) == \E n \in 1 .. Len(timeline) : timeline[n].prop = "rotation"

\* C2: every navigation requests a rotation whose end value is the rotation
\* at the moment of the click plus one step for a RightArrow click and
\* minus one step for a LeftArrow click, whatever the index and rotation.
C2_RotationDelta ==
  [][(clicks' = clicks + 1 /\ event'.name \in Arrows) =>
       /\ HasRotation(globalTimeline')
       /\ LastRotationEnd(globalTimeline') - rotationY =
            IF event'.name = "RightArrow" THEN Step ELSE -Step]_vars

C2_Witness ==
  /\ last.name = "LeftArrow"
  /\ ~last.atRest
  /\ last.y % Step # 0
  /\ HasRotation(globalTimeline)
  /\ LastRotationEnd(globalTimeline) = last.y - Step

\* C3: the displayed index changes only in a frame that leaves the heading
\* fully transparent; stated here in its weakest reading, that the heading
\* is transparent in the frame before the swap or in the frame showing it.
C3_SwapWhileTransparent ==
  [][index' # index => (opacity = 0 \/ opacity' = 0)]_vars

\* C4 (as amended): the LeftArrow of item i is tagged (i+1) mod N and the
\* RightArrow (i-1+N) mod N; the LeftArrow tag of item N-1 is 0 and the
\* RightArrow tag of item 0 is N-1.
C4_NeighbourTags ==
  \A i \in 0 .. count - 1 : \A m \in Meshes(i) :
    /\ m.name = "LeftArrow" => m.userData = << (i + 1) % count >>
    /\ m.name = "RightArrow" => m.userData = << (i - 1 + count) % count >>

\* C4 (as stated): the LeftArrow is tagged (i-1+N) mod N and the RightArrow
\* (i+1) mod N.
C4_Original ==
  \A i \in 0 .. count - 1 : \A m \in Meshes(i) :
    /\ m.name = "LeftArrow" => m.userData = << (i - 1 + count) % count >>
    /\ m.name = "RightArrow" => m.userData = << (i + 1) % count >>

C4_Witness ==
  /\ count = 5
  /\ last.name = "RightArrow"
  /\ last.item = 0
  /\ last.index = 4
  /\ event = [name |-> "RightArrow", userData |-> << 4 >>]

\* The first click of the run: RightArrow of item 0, completed.
FirstRightDone ==
  /\ count = 5
  /\ AtRest
  /\ clicks = 1
  /\ last.name = "RightArrow"
  /\ last.item = 0

\* The second click of the run, at rest after the first: LeftArrow of the
\* item `i` then displayed, completed.
ThenLeftDone(i) ==
  /\ count = 5
  /\ AtRest
  /\ clicks = 2
  /\ last.name = "LeftArrow"
  /\ last.item = i
  /\ last.from = i
  /\ last.y = Step
  /\ last.atRest

\* C5 (as amended): N=5, from index 0 and rotation 0: the RightArrow of item
\* 0 leaves index 4, the heading "Groundbreaking" and the gallery rotated by
\* one step; then the LeftArrow of item 4 returns the index to 0.
C5_EndToEnd ==
  /\ FirstRightDone =>
       (index = 4 /\ Title = "Groundbreaking" /\ rotationY = Step /\ opacity = Full)
  /\ ThenLeftDone(4) => index = 0

\* C5 (as stated): the RightArrow of item 0 leaves index 1 and the heading
\* "You Luke Huge"; then the LeftArrow of item 1 returns the index to 0.
C5_Original ==
  /\ FirstRightDone =>
       (index = 1 /\ Title = "You Luke Huge" /\ rotationY = Step)
  /\ ThenLeftDone(1) => index = 0

C5_Witness == ThenLeftDone(4) /\ index = 0 /\ rotationY = 0

\* C6: the displayed index is in [0,N) in every reachable state, so the
\* title lookup is defined.
C6_IndexInRange == index \in 0 .. count - 1 /\ Title \in { AllImages[n] : n \in 1 .. count }

C6_Witness ==
  /\ count = 5
  /\ ~last.atRest
  /\ last.name = "RightArrow"
  /\ last.item = 0
  /\ AtRest
  /\ index = count - 1

\* C7: a click on an arrow, in any state, adds a rotation tween (end =
\* rotation at the click plus direction times one step) and a title
\* fade-out with its callback, and leaves every earlier tween pending.
C7_NeverBlocked ==
  [][(clicks' = clicks + 1 /\ event'.name \in Arrows) =>
       LET n == Len(globalTimeline) IN
       /\ Len(globalTimeline') = n + 2
       /\ SubSeq(globalTimeline', 1, n) = globalTimeline
       /\ globalTimeline'[n + 1].prop = "rotation"
       /\ globalTimeline'[n + 1].end =
            rotationY + (IF event'.name = "RightArrow" THEN Step ELSE -Step)
       /\ globalTimeline'[n + 2].prop = "opacity"
       /\ globalTimeline'[n + 2].end = 0
       /\ globalTimeline'[n + 2].onComplete = event'.userData]_vars

C7_Witness ==
  /\ Len(globalTimeline) = 4
  /\ ~last.atRest
  /\ globalTimeline[1].k > 0
  /\ globalTimeline[2].onComplete # << >>
  /\ globalTimeline[4].onComplete # << >>

\* C8: when every click is made at rest on an arrow of the facing item,
\* at rest the displayed index is the index of the item facing the viewer.
C8_IndexFacesViewer == AtRest => Facing(index)

C8_Witness ==
  /\ count = 5
  /\ AtRest
  /\ clicks = 2
  /\ index = 2
  /\ rotationY = -2 * Step

\* C9: once every rotation tween has completed, the rotation is a whole
\* number of steps.
C9_RestsOnAStep == AtRest => rotationY % Step = 0

\* The carousel has settled on the latest navigation.
Settled ==
  /\ AtRest
  /\ opacity = Full
  /\ last.name \in Arrows => index = last.index

\* Frames until the tween `t` and the fade-in its callback will add are over.
Remaining(t) == (Dur - t.k) + (IF t.onComplete # << >> THEN Dur ELSE 0)

\* Frames until every tween of the timeline is over.
Pending ==
  IF AtRest THEN 0
  ELSE CHOOSE m \in { Remaining(globalTimeline[n]) : n \in 1 .. Len(globalTimeline) } :
         \A n \in 1 .. Len(globalTimeline) : Remaining(globalTimeline[n]) <= m

\* C10: when the clicks stop, eventually every tween has completed, the
\* heading is fully opaque and the displayed index is the tag of the arrow
\* hit by the latest navigation.  Stated so that finite runs decide it:
\* every frame (the only step without a click, which the ticker takes for
\* as long as a tween is live) brings the end of all tweens one frame
\* closer, and whenever no tween is live the carousel has settled.
C10_TitleConverges ==
  /\ [][clicks' = clicks => (Pending > 0 /\ Pending' = Pending - 1)]_vars
  /\ [](AtRest => Settled)

C10_Witness ==
  /\ Settled
  /\ ~last.atRest
  /\ last.index # last.from
  /\ index # 0

====
